---- MODULE Spec2Model ----
(***************************************************************************)
(* Bug-tracker backend: the User / Project / Issue / Comment stores, the    *)
(* authentication gate, the route handlers that read and write the stores, *)
(* and their ownership checks.                                             *)
(* Every await of a repository call is one atomic step of a request; a     *)
(* request's arrival is taken together with its first repository call.     *)
(***************************************************************************)
EXTENDS Integers, Sequences, FiniteSets, TLC

\* ------------------------------------------------------------------ bounds
MaxProjects == 1
MaxIssues == 2
MaxComments == 2
\* Accounts that can be registered besides the seeded ones.
MaxRegistered == 2
\* Issues in the store of the listing specification.
MaxListed == 15

\* ------------------------------------------------------------- identifiers
\* Document ids are drawn from 1..Max*, never reused; 0 stands for a string
\* that mongoose.Types.ObjectId.isValid rejects.
MalformedId == 0
IsValidObjectId(id) == id # MalformedId
\* -1 stands for an id field that the request does not carry.
NoId == -1

PIds == 1..MaxProjects
IIds == 1..MaxIssues
CIds == 1..MaxComments

\* Users of the credential store: two plain users and one admin.
UserIds == {"u1", "u2", "adm"}
SystemRoles == {"user", "admin"}
ProjectRoles == {"developer", "qa", "manager"}

\* Request slots: the requests that can be in flight at the same time.
Slots == {"r1", "r2"}

VARIABLES users, projects, issues, comments, nextProject, nextIssue, nextComment, req

vars == <<users, projects, issues, comments, nextProject, nextIssue, nextComment, req>>
store == <<users, projects, issues, comments, nextProject, nextIssue, nextComment>>

\* -------------------------------------------------------------- User model
\* The paths of a user document; password is declared select: false.
UserPaths == {"_id", "username", "email", "password", "role", "createdAt"}
SelectFalse == {"password"}

\* bcrypt.hash and bcrypt.compare: what is stored is not what was entered.
Hash(p) == <<"bcrypt", p>>
MatchPassword(entered, stored) == stored = Hash(entered)

\* The seeded accounts.
SeedEmail(u) ==
  CASE u = "u1" -> "u1@x"
    [] u = "u2" -> "u2@x"
    [] OTHER -> "adm@x"
SeedUser(u) ==
  [role |-> IF u = "adm" THEN "admin" ELSE "user",
   username |-> u, email |-> SeedEmail(u), password |-> Hash("secret")]

\* ------------------------------------------------------------ id handling
\* A 24-hex-digit id string is accepted in either letter case and is cast to
\* the same ObjectId; toString() always gives the lower-case form.
Canon(s) ==
  CASE s = "U1" -> "u1"
    [] s = "U2" -> "u2"
    [] s = "ADM" -> "adm"
    [] OTHER -> s

\* Strings handed in as a member's user id: ids of stored users in lower and
\* upper case, a well-formed id of no user, and a malformed string.
IsValidUserIdString(s) == s # "bad"
UserFindById(s) == IF Canon(s) \in DOMAIN users THEN Canon(s) ELSE "none"

\* ------------------------------------------------------------------ tokens
\* A token string as the gate sees it: absent (undefined), the empty string,
\* a whitespace-only string, a string that is no JWT, or a JWT with a
\* signature that is valid or not, an expiry that has passed or not, and the
\* user id of its payload.
Tok(k, s, e, i) == [kind |-> k, signed |-> s, expired |-> e, id |-> i]
Absent == Tok("absent", FALSE, FALSE, "none")
EmptyString == Tok("empty", FALSE, FALSE, "none")
Whitespace == Tok("blank", FALSE, FALSE, "none")
NotAJwt == Tok("garbage", FALSE, FALSE, "none")
Jwt(s, e, i) == Tok("jwt", s, e, i)

\* getSignedJwtToken(id): signed with JWT_SECRET, not yet expired.
GetSignedJwtToken(i) == Jwt(TRUE, FALSE, i)

\* The Authorization header: absent, or a scheme word followed by what
\* split(' ')[1] gives (Absent for a header of the scheme word alone).
Header(sch, t) == [scheme |-> sch, token |-> t]
NoHeader == Header("none", Absent)

\* ------------------------------------------------------- request records
\* req[r] is the request in slot r: what was asked (op, ids, name, input,
\* header, cookie, body and query fields), where it stands (pc), the
\* identity attached to it (user is req.user.id, role req.user.role, fields
\* the paths req.user carries), the handler's locals (members, setMembers,
\* removed), and its response (status, msg, cleared: the token cookie was
\* overwritten, exposed: the user paths in the body, issued: the body
\* carries a token, items and total of a listing).
NoMembers == << >>
NoInput == [given |-> FALSE, list |-> << >>]
IdleReq ==
  [op |-> "none", user |-> "none", pc |-> "idle", status |-> 0,
   pid |-> 0, iid |-> 0, cid |-> 0, name |-> "", input |-> NoInput,
   setMembers |-> FALSE, members |-> NoMembers, removed |-> {},
   header |-> NoHeader, cookie |-> Absent, role |-> "", fields |-> {},
   roles |-> {}, uid |-> "", username |-> "", email |-> "", password |-> "",
   page |-> "", limit |-> "", assignedTo |-> "", bodyRole |-> "", failed |-> "",
   msg |-> "", cleared |-> FALSE, exposed |-> {}, issued |-> FALSE,
   items |-> << >>, total |-> 0, listed |-> {}]

Idle(r) == req[r].pc = "idle"

\* A request as it reaches its handler.
Request(o, u) == [IdleReq EXCEPT !.op = o, !.user = u, !.pc = "handler"]

\* Query.select / populate's field list applied to a user document: no list
\* leaves out the select: false paths, "-password" leaves out password as
\* well, "+password" brings it back, a list of names keeps those and _id.
Select(sel) ==
  CASE sel = "" -> UserPaths \ SelectFalse
    [] sel = "-password" -> (UserPaths \ SelectFalse) \ {"password"}
    [] sel = "+password" -> UserPaths
    [] sel = "username email" -> {"_id", "username", "email"}

\* The user object the auth routes write into their response by hand.
ExplicitUser == {"id", "username", "email", "role"}
\* A variant that passes the loaded document on.
PopulatedUserWhole == UserPaths
\* createdBy, members.user, assignedTo and author as populated in a response.
PopulatedUser == Select("username email")

\* The paths of user documents that the body of the response carries.
ResponseUserPaths(o, code) ==
  CASE o \in {"Register", "Login", "Me"} /\ code \in {200, 201} -> ExplicitUser
    [] o \in {"ListUsers", "GetUser"} /\ code = 200 -> Select("-password")
    [] o \in {"ViewProject", "UpdateProject", "ListIssues"} /\ code = 200 -> PopulatedUser
    [] o \in {"CreateProject", "CreateComment"} /\ code = 201 -> PopulatedUser
    [] OTHER -> {}

\* res.status(code).json(...): the handler returns with this response.
Respond(q, code) ==
  [q EXCEPT !.pc = "sent", !.status = code, !.exposed = ResponseUserPaths(q.op, code)]

At(r, o, where) == req[r].op = o /\ req[r].pc = where

TypeOK ==
  /\ DOMAIN projects \subseteq PIds
  /\ DOMAIN issues \subseteq IIds
  /\ DOMAIN comments \subseteq CIds
  /\ nextProject \in 1..(MaxProjects + 1)
  /\ nextIssue \in 1..(MaxIssues + 1)
  /\ nextComment \in 1..(MaxComments + 1)

Init ==
  /\ users = [u \in UserIds |-> SeedUser(u)]
  /\ projects = << >>
  /\ issues = << >>
  /\ comments = << >>
  /\ nextProject = 1
  /\ nextIssue = 1
  /\ nextComment = 1
  /\ req = [r \in Slots |-> IdleReq]

\* The number of requests of kind `o` that have passed their checks and are
\* in flight (ids are bounded, so arrivals of creating requests are too).
Pending(o) == Cardinality({r \in Slots : req[r].op = o /\ req[r].pc \notin {"idle", "sent"}})

\* The _id of the next user document, and the number of registered accounts.
FreshUserIds == <<"n1", "n2", "n3", "n4">>
Registered == Cardinality(DOMAIN users) - Cardinality(UserIds)

\* --------------------------------------------------------- store helpers
Insert(f, k, v) == [x \in DOMAIN f \cup {k} |-> IF x = k THEN v ELSE f[x]]
Remove(f, k) == [x \in DOMAIN f \ {k} |-> f[x]]

\* ------------------------------------------------------------ Project model
Names == {"Alpha", "Beta"}

\* req.body.members as sent: absent, or an array of {user, role}; role ""
\* stands for a missing role.
MemberInputs ==
  { [given |-> FALSE, list |-> << >>],
    [given |-> TRUE, list |-> << >>],
    [given |-> TRUE, list |-> <<[user |-> "u2", role |-> ""]>>],
    [given |-> TRUE, list |-> <<[user |-> "u2", role |-> "manager"]>>],
    [given |-> TRUE, list |-> <<[user |-> "U1", role |-> "qa"]>>],
    [given |-> TRUE, list |-> <<[user |-> "ghost", role |-> ""]>>],
    [given |-> TRUE, list |-> <<[user |-> "u2", role |-> "qa"], [user |-> "bad", role |-> ""]>>] }

\* The loop over req.body.members shared by create and update: `acc` is the
\* list built so far (raw id strings), `self` the creator's id string. The
\* result carries status 0 when the loop ran to its end, else the status of
\* the early return.
RECURSIVE MemberLoop(_, _, _, _)
MemberLoop(acc, list, i, self) ==
  IF i > Len(list) THEN [status |-> 0, members |-> acc]
  ELSE LET m == list[i] IN
    IF m.user = self THEN MemberLoop(acc, list, i + 1, self)
    ELSE IF ~IsValidUserIdString(m.user) THEN [status |-> 400, members |-> acc]
    ELSE IF UserFindById(m.user) = "none" THEN [status |-> 404, members |-> acc]
    ELSE IF \E k \in 1..Len(acc) : acc[k].user = m.user
      THEN MemberLoop(acc, list, i + 1, self)
    ELSE MemberLoop(
           Append(acc, [user |-> m.user,
                        role |-> IF m.role = "" THEN "developer" ELSE m.role]),
           list, i + 1, self)

\* Casting the members array to the schema: every user string becomes an
\* ObjectId.
CastMembers(ms) == [k \in 1..Len(ms) |-> [user |-> Canon(ms[k].user), role |-> ms[k].role]]

\* POST /api/projects: the creator first, as manager, then the listed members.
CreateMembers(u, input) ==
  MemberLoop(<<[user |-> u, role |-> "manager"]>>, input.list, 1, u)

\* PUT /api/projects/:id: the creator's existing entry first (manager when it
\* is missing), then the listed members.
CreatorEntries(p) == SelectSeq(p.members, LAMBDA m : m.user = p.createdBy)
\* A variant that starts from the empty list.
UpdateMembersWithoutCreator(p, input) == MemberLoop(<< >>, input.list, 1, p.createdBy)
UpdateMembers(p, input) ==
  LET first == IF Len(CreatorEntries(p)) > 0
                 THEN [user |-> p.createdBy,
                       role |-> IF CreatorEntries(p)[1].role = "" THEN "manager"
                                ELSE CreatorEntries(p)[1].role]
                 ELSE [user |-> p.createdBy, role |-> "manager"]
  IN MemberLoop(<<first>>, input.list, 1, p.createdBy)

\* ------------------------------------------------------ ownership checks
IsCreator(u, p) == p.createdBy = u
IsMember(u, p) == \E k \in 1..Len(p.members) : p.members[k].user = u

\* populate of a user reference: the id of the stored user document, "none"
\* (null) when no user has the id.
PopulateUser(i) == IF i \in DOMAIN users THEN i ELSE "none"

\* GET /api/projects/:id: the check reads the populated document.
\* A variant that also lets an admin in.
CanViewProjectOrAdmin(u, p) == IsCreator(u, p) \/ IsMember(u, p) \/ users[u].role = "admin"
CanViewProject(u, p) ==
  \/ PopulateUser(p.createdBy) # "none" /\ PopulateUser(p.createdBy) = u
  \/ \E k \in 1..Len(p.members) :
       PopulateUser(p.members[k].user) # "none" /\ PopulateUser(p.members[k].user) = u
\* PUT /api/projects/:id
\* A variant that also lets a member with role manager in.
CanUpdateProjectOrManager(u, p) ==
  \/ p.createdBy = u
  \/ users[u].role = "admin"
  \/ \E k \in 1..Len(p.members) : p.members[k].user = u /\ p.members[k].role = "manager"
CanUpdateProject(u, p) == p.createdBy = u \/ users[u].role = "admin"
\* DELETE /api/projects/:id
\* A variant without the ownership check.
CanDeleteProjectUnchecked(u, p) == TRUE
CanDeleteProject(u, p) == p.createdBy = u \/ users[u].role = "admin"
\* DELETE /api/issues/:id
\* A variant that also lets an admin in.
CanDeleteIssueOrAdmin(u, i) == i.createdBy = u \/ users[u].role = "admin"
CanDeleteIssue(u, i) == i.createdBy = u
\* DELETE /api/issues/:issueId/comments/:commentId
CanDeleteComment(u, c) == c.author = u

\* ------------------------------------------------------ repository calls
\* Issue.deleteMany({ project: pid }): a query; the document hook
\* pre('deleteOne', {document: true, query: false}) does not run for it.
IssueDeleteMany(iss, pid) == [i \in {j \in DOMAIN iss : iss[j].project # pid} |-> iss[i]]
\* Comment.deleteMany({ issue: iid }), the body of the Issue deleteOne hook.
\* A variant without the filter.
CommentDeleteManyUnfiltered(cms, iid) == << >>
CommentDeleteMany(cms, iid) == [c \in {d \in DOMAIN cms : cms[d].issue # iid} |-> cms[c]]
\* Project.findOne({ name, createdBy })
ProjectFindOne(n, u) == \E p \in DOMAIN projects : projects[p].name = n /\ projects[p].createdBy = u

\* Project.find({ $or: [{ createdBy: u }, { 'members.user': u }] }): the ids
\* of the matching documents.
\* A variant whose query has the createdBy branch only.
ProjectFindCreatedOnly(u) == {p \in DOMAIN projects : projects[p].createdBy = u}
ProjectFind(u) ==
  {p \in DOMAIN projects :
     \/ projects[p].createdBy = u
     \/ \E k \in DOMAIN projects[p].members : projects[p].members[k].user = u}

\* ------------------------------------------------------------- arrival
\* A request of the set R arrives in a free slot. A creating request arrives
\* only while an id is left for its document.
CanArrive(q) ==
  /\ q.op = "CreateProject" => nextProject + Pending("CreateProject") <= MaxProjects
  /\ q.op = "CreateIssue" => nextIssue + Pending("CreateIssue") <= MaxIssues
  /\ q.op = "CreateComment" => nextComment + Pending("CreateComment") <= MaxComments
  /\ q.op = "Register" => Registered + Pending("Register") < MaxRegistered

Arrive(r, R) ==
  /\ Idle(r)
  /\ \E q \in R : CanArrive(q) /\ req' = [req EXCEPT ![r] = q]
  /\ UNCHANGED store

\* The response has gone out, or the request was handed on with next() to a
\* handler outside this module, and the slot is free again.
Finish(r) ==
  /\ req[r].pc \in {"sent", "next"}
  /\ req' = [req EXCEPT ![r] = IdleReq]
  /\ UNCHANGED store

AnyPId == PIds \cup {MalformedId}
AnyIId == IIds \cup {MalformedId}
AnyCId == CIds \cup {MalformedId}

ListProjectsReqs(U) == {Request("ListProjects", u) : u \in U}
ViewProjectReqs(U) == {[Request("ViewProject", u) EXCEPT !.pid = p] : u \in U, p \in AnyPId}
CreateProjectReqs(U, N, MI) ==
  {[Request("CreateProject", u) EXCEPT !.name = n, !.input = mi] : u \in U, n \in N, mi \in MI}
UpdateProjectReqs(U, N, MI) ==
  {[Request("UpdateProject", u) EXCEPT !.pid = p, !.name = n, !.input = mi] :
     u \in U, p \in AnyPId, n \in N, mi \in MI}
DeleteProjectReqs(U) == {[Request("DeleteProject", u) EXCEPT !.pid = p] : u \in U, p \in AnyPId}
\* A body with a title the schema accepts and no assignee.
CreateIssueReqs(U) ==
  {[Request("CreateIssue", u) EXCEPT !.pid = p, !.name = "Bug 1"] : u \in U, p \in AnyPId}
CreateIssueBodyReqs(U, T, PI, AS) ==
  {[Request("CreateIssue", u) EXCEPT !.pid = p, !.name = t, !.assignedTo = a] :
     u \in U, t \in T, p \in PI, a \in AS}
DeleteIssueReqs(U) == {[Request("DeleteIssue", u) EXCEPT !.iid = i] : u \in U, i \in AnyIId}
\* A body with a content the schema accepts.
CreateCommentReqs(U) ==
  {[Request("CreateComment", u) EXCEPT !.iid = i, !.name = "ok"] : u \in U, i \in AnyIId}
CreateCommentBodyReqs(U, CT, II) ==
  {[Request("CreateComment", u) EXCEPT !.iid = i, !.name = c] : u \in U, c \in CT, i \in II}
DeleteCommentReqs(U) ==
  {[Request("DeleteComment", u) EXCEPT !.iid = i, !.cid = c] : u \in U, i \in AnyIId, c \in AnyCId}
UpdateIssueReqs(U, T, PI, AS) ==
  {[Request("UpdateIssue", u) EXCEPT !.iid = i, !.name = t, !.pid = p, !.assignedTo = a] :
     u \in U, i \in AnyIId, t \in T, p \in PI, a \in AS}
ListIssuesReqs(U, PI, PG, LM) ==
  {[Request("ListIssues", u) EXCEPT !.pid = p, !.page = g, !.limit = l] :
     u \in U, p \in PI, g \in PG, l \in LM}
\* The public routes: no identity is attached.
RegisterReqs(UN, EM, PW) ==
  {[Request("Register", "none") EXCEPT !.username = n, !.email = e, !.password = p] :
     n \in UN, e \in EM, p \in PW}
\* A body that carries a role as well ("" when not given).
RegisterBodyReqs(UN, EM, PW, RL) ==
  {[q EXCEPT !.bodyRole = rl] : q \in RegisterReqs(UN, EM, PW), rl \in RL}
LoginReqs(EM, PW) ==
  {[Request("Login", "none") EXCEPT !.email = e, !.password = p] : e \in EM, p \in PW}
GetUserReqs(U, I) == {[Request("GetUser", u) EXCEPT !.uid = i] : u \in U, i \in I}

\* ------------------------------------------------ errorHandler (middleware)
\* The status the error handler answers for an error passed to next(err).
ErrorStatus(err) ==
  CASE err = "CastError" -> 404
    [] err = "DuplicateKey" -> 400
    [] err = "ValidationError" -> 400
    [] err = "JsonWebTokenError" -> 401
    [] err = "TokenExpiredError" -> 401
    [] OTHER -> 500

\* ---------------------------------------------------- GET /api/projects/:id
ViewProjectStatus(u, pid) ==
  IF ~IsValidObjectId(pid) THEN 400
  ELSE IF pid \notin DOMAIN projects THEN 404
  ELSE IF ~CanViewProject(u, projects[pid]) THEN 401
  ELSE 200

ViewProject(r) ==
  /\ At(r, "ViewProject", "handler")
  /\ req' = [req EXCEPT ![r] = Respond(@, ViewProjectStatus(@.user, @.pid))]
  /\ UNCHANGED store

\* --------------------------------------------------------- GET /api/projects
\* listed is the set of ids of the projects in the response.
ListProjects(r) ==
  /\ At(r, "ListProjects", "handler")
  /\ req' = [req EXCEPT ![r] = [Respond(@, 200) EXCEPT !.listed = ProjectFind(req[r].user)]]
  /\ UNCHANGED store

\* -------------------------------------------------------- POST /api/projects
CreateProjectStatus(u, name, input) ==
  IF name = "" THEN 400
  ELSE IF ProjectFindOne(name, u) THEN 400
  ELSE CreateMembers(u, input).status

CreateProjectStart(r) ==
  /\ At(r, "CreateProject", "handler")
  /\ LET q == req[r]
         code == CreateProjectStatus(q.user, q.name, q.input)
     IN req' = [req EXCEPT ![r] =
                  IF code # 0 THEN Respond(q, code)
                  ELSE [q EXCEPT !.pc = "save",
                                 !.members = CreateMembers(q.user, q.input).members]]
  /\ UNCHANGED store

\* The validators of projectSchema.name; a name the request does not carry
\* ("") leaves the stored one.
IsValidProjectName(n) == n = "" \/ (Len(n) >= 3 /\ Len(n) <= 100)

\* newProject.save(): the validators run, then the document is inserted; a
\* ValidationError goes to the error handler.
CreateProjectSave(r) ==
  /\ At(r, "CreateProject", "save")
  /\ IF IsValidProjectName(req[r].name)
       THEN /\ projects' = Insert(projects, nextProject,
                                  [name |-> req[r].name, createdBy |-> req[r].user,
                                   members |-> CastMembers(req[r].members)])
            /\ nextProject' = nextProject + 1
            /\ req' = [req EXCEPT ![r] = Respond(@, 201)]
       ELSE /\ UNCHANGED <<projects, nextProject>>
            /\ req' = [req EXCEPT ![r] = Respond(@, ErrorStatus("ValidationError"))]
  /\ UNCHANGED <<users, issues, comments, nextIssue, nextComment>>

\* --------------------------------------------------- PUT /api/projects/:id
UpdateProjectStatus(u, pid, input) ==
  IF ~IsValidObjectId(pid) THEN 400
  ELSE IF pid \notin DOMAIN projects THEN 404
  ELSE IF ~CanUpdateProject(u, projects[pid]) THEN 401
  ELSE IF input.given THEN UpdateMembers(projects[pid], input).status
  ELSE 0

\* name "" stands for a body without a name. After the handler's assignments
\* the request carries "" for an unmodified name (assigning a field its own
\* value marks nothing as changed).
UpdateProjectStart(r) ==
  /\ At(r, "UpdateProject", "handler")
  /\ LET q == req[r]
         code == UpdateProjectStatus(q.user, q.pid, q.input)
     IN req' = [req EXCEPT ![r] =
                  IF code # 0 THEN Respond(q, code)
                  ELSE [q EXCEPT
                          !.pc = "save",
                          !.name = IF q.name = projects[q.pid].name THEN "" ELSE q.name,
                          !.setMembers = q.input.given,
                          !.members = IF q.input.given
                                        THEN UpdateMembers(projects[q.pid], q.input).members
                                        ELSE NoMembers]]
  /\ UNCHANGED store

\* project.save(): the validators run, then the document's changed fields are
\* written; a document that was removed in the meantime is not written (the
\* request fails).
UpdateProjectSave(r) ==
  /\ At(r, "UpdateProject", "save")
  /\ IF ~IsValidProjectName(req[r].name)
       THEN /\ projects' = projects
            /\ req' = [req EXCEPT ![r] = Respond(@, ErrorStatus("ValidationError"))]
       ELSE IF req[r].pid \in DOMAIN projects
       THEN /\ projects' = [projects EXCEPT ![req[r].pid] =
                              [@ EXCEPT !.name = IF req[r].name = "" THEN @ ELSE req[r].name,
                                        !.members = IF req[r].setMembers
                                                      THEN CastMembers(req[r].members)
                                                      ELSE @]]
            /\ req' = [req EXCEPT ![r] = Respond(@, 200)]
       ELSE /\ projects' = projects
            /\ req' = [req EXCEPT ![r] = Respond(@, 500)]
  /\ UNCHANGED <<users, issues, comments, nextProject, nextIssue, nextComment>>

\* ------------------------------------------------ DELETE /api/projects/:id
DeleteProjectStatus(u, pid) ==
  IF ~IsValidObjectId(pid) THEN 400
  ELSE IF pid \notin DOMAIN projects THEN 404
  ELSE IF ~CanDeleteProject(u, projects[pid]) THEN 401
  ELSE 0

DeleteProjectStart(r) ==
  /\ At(r, "DeleteProject", "handler")
  /\ LET q == req[r]
         code == DeleteProjectStatus(q.user, q.pid)
     IN req' = [req EXCEPT ![r] =
                  IF code # 0 THEN Respond(q, code) ELSE [q EXCEPT !.pc = "deleteIssues"]]
  /\ UNCHANGED store

\* await Issue.deleteMany({ project: req.params.id }); removed is the set of
\* issues the call deleted.
DeleteProjectIssues(r) ==
  /\ At(r, "DeleteProject", "deleteIssues")
  /\ issues' = IssueDeleteMany(issues, req[r].pid)
  /\ req' = [req EXCEPT ![r] = [@ EXCEPT !.pc = "deleteOne",
                                         !.removed = DOMAIN issues \ DOMAIN issues']]
  /\ UNCHANGED <<users, projects, comments, nextProject, nextIssue, nextComment>>

\* Issue.deleteMany rejects (the database fails): any part of the matching
\* issues may be gone by then. The handler stops at the await, asyncHandler
\* passes the error on and the error handler answers it.
DeleteProjectIssuesFails(r) ==
  /\ At(r, "DeleteProject", "deleteIssues")
  /\ \E gone \in SUBSET {i \in DOMAIN issues : issues[i].project = req[r].pid} :
       /\ issues' = [i \in DOMAIN issues \ gone |-> issues[i]]
       /\ req' = [req EXCEPT ![r] = [Respond(@, ErrorStatus("MongoError")) EXCEPT
                                       !.removed = gone, !.failed = "children"]]
  /\ UNCHANGED <<users, projects, comments, nextProject, nextIssue, nextComment>>

\* project.deleteOne() rejects: the document is still stored, or it is gone
\* and the acknowledgement was lost.
DeleteProjectOneFails(r) ==
  /\ At(r, "DeleteProject", "deleteOne")
  /\ projects' \in {projects, Remove(projects, req[r].pid)}
  /\ req' = [req EXCEPT ![r] = [Respond(@, ErrorStatus("MongoError")) EXCEPT !.failed = "parent"]]
  /\ UNCHANGED <<users, issues, comments, nextProject, nextIssue, nextComment>>

\* await project.deleteOne()
DeleteProjectOne(r) ==
  /\ At(r, "DeleteProject", "deleteOne")
  /\ projects' = Remove(projects, req[r].pid)
  /\ req' = [req EXCEPT ![r] = Respond(@, 200)]
  /\ UNCHANGED <<users, issues, comments, nextProject, nextIssue, nextComment>>

\* ---------------------------------------------------------- POST /api/issues
\* trim: true of a schema string, on the strings in use.
Trim(n) ==
  CASE n = " ann" -> "ann"
    [] n = "  " -> ""
    [] OTHER -> n

\* The validators of issueSchema.title; a title the request does not carry
\* ("") leaves the stored one.
IsValidIssueTitle(t) == t = "" \/ (Len(t) >= 5 /\ Len(t) <= 200)

\* The body carries title (name; "" when not given), project (pid; NoId when
\* not given) and assignedTo ("" when not given, "null" for null, else an id
\* string).
CreateIssueStatus(title, pid, assignee) ==
  IF title = "" \/ pid = NoId THEN 400
  ELSE IF ~IsValidObjectId(pid) THEN 400
  ELSE IF pid \notin DOMAIN projects THEN 404
  ELSE IF assignee \notin {"", "null"} /\ ~IsValidUserIdString(assignee) THEN 400
  ELSE IF assignee \notin {"", "null"} /\ UserFindById(assignee) = "none" THEN 404
  ELSE 0

\* A variant that lets only the creator and the members of the project in.
CreateIssueStartMembersOnly(r) ==
  /\ At(r, "CreateIssue", "handler")
  /\ LET q == req[r]
         code == CreateIssueStatus(q.name, q.pid, q.assignedTo)
     IN req' = [req EXCEPT ![r] =
                  IF code # 0 THEN Respond(q, code)
                  ELSE IF ~CanViewProject(q.user, projects[q.pid]) THEN Respond(q, 401)
                  ELSE [q EXCEPT !.pc = "save"]]
  /\ UNCHANGED store
CreateIssueStart(r) ==
  /\ At(r, "CreateIssue", "handler")
  /\ LET q == req[r]
         code == CreateIssueStatus(q.name, q.pid, q.assignedTo)
     IN req' = [req EXCEPT ![r] =
                  IF code # 0 THEN Respond(q, code) ELSE [q EXCEPT !.pc = "save"]]
  /\ UNCHANGED store

\* newIssue.save(): the validators run, then the document is inserted; a
\* ValidationError goes to the error handler.
CreateIssueSave(r) ==
  /\ At(r, "CreateIssue", "save")
  /\ LET q == req[r] IN
     IF Trim(q.name) # "" /\ IsValidIssueTitle(Trim(q.name))
       THEN /\ issues' = Insert(issues, nextIssue,
                                [project |-> q.pid, createdBy |-> q.user,
                                 assignedTo |-> IF q.assignedTo \in {"", "null"} THEN "none"
                                                ELSE Canon(q.assignedTo)])
            /\ nextIssue' = nextIssue + 1
            /\ req' = [req EXCEPT ![r] = Respond(q, 201)]
       ELSE /\ UNCHANGED <<issues, nextIssue>>
            /\ req' = [req EXCEPT ![r] = Respond(q, ErrorStatus("ValidationError"))]
  /\ UNCHANGED <<users, projects, comments, nextProject, nextComment>>

\* ----------------------------------------------------------- GET /api/issues
\* The query carries project, page and limit; "" stands for a parameter that
\* is not given. parseInt of the decimal strings in use.
ParseInt(str) ==
  CASE str = "1" -> 1
    [] str = "2" -> 2
    [] str = "3" -> 3
    [] str = "5" -> 5
    [] str = "10" -> 10

\* const { page = 1, limit = 10 } = req.query, then parseInt(page), parseInt(limit)
PageOf(q) == IF q.page = "" THEN 1 ELSE ParseInt(q.page)
LimitOf(q) == IF q.limit = "" THEN 10 ELSE ParseInt(q.limit)

\* A variant that counts pages from 0.
SkipCountFromZero(q) == PageOf(q) * LimitOf(q)
SkipCount(q) == (PageOf(q) - 1) * LimitOf(q)

\* Issue.find(query) / Issue.countDocuments(query): the issues the query
\* selects.
IssueFind(pid) == {i \in DOMAIN issues : pid = NoId \/ issues[i].project = pid}

\* .sort({ createdAt: -1 }): newest first; ids are given in creation order.
RECURSIVE SortNewestFirst(_)
SortNewestFirst(S) ==
  IF S = {} THEN << >>
  ELSE LET m == CHOOSE x \in S : \A y \in S : y <= x
       IN <<m>> \o SortNewestFirst(S \ {m})

\* .skip(n) and .limit(n) of a cursor, n >= 0 and n >= 1.
Skip(seq, n) == SubSeq(seq, n + 1, Len(seq))
Limit(seq, n) == SubSeq(seq, 1, IF n < Len(seq) THEN n ELSE Len(seq))

ListIssuesStatus(pid) ==
  IF pid # NoId /\ ~IsValidObjectId(pid) THEN 400 ELSE 0

\* The filter checks, then await Issue.find(query).sort().skip().limit()
ListIssuesFind(r) ==
  /\ At(r, "ListIssues", "handler")
  /\ LET q == req[r]
         code == ListIssuesStatus(q.pid)
     IN req' = [req EXCEPT ![r] =
                  IF code # 0 THEN Respond(q, code)
                  ELSE [q EXCEPT !.pc = "count",
                                 !.items = Limit(Skip(SortNewestFirst(IssueFind(q.pid)),
                                                      SkipCount(q)),
                                                 LimitOf(q))]]
  /\ UNCHANGED store

\* await Issue.countDocuments(query), then res.json({ total, page, limit, issues })
ListIssuesCount(r) ==
  /\ At(r, "ListIssues", "count")
  /\ LET q == req[r] IN
     req' = [req EXCEPT ![r] =
               [Respond(q, 200) EXCEPT !.total = Cardinality(IssueFind(q.pid))]]
  /\ UNCHANGED store

\* ---------------------------------------------------- PUT /api/issues/:id
\* The body carries title (name; "" when not given), project (pid; NoId when
\* not given) and assignedTo ("" when not given, "null" for null, else an id
\* string). The title is validated and not kept in the model.

UpdateIssueStatus(iid, pid, assignee) ==
  IF ~IsValidObjectId(iid) THEN 400
  ELSE IF iid \notin DOMAIN issues THEN 404
  ELSE IF pid # NoId /\ ~IsValidObjectId(pid) THEN 400
  ELSE IF pid # NoId /\ pid \notin DOMAIN projects THEN 404
  ELSE IF assignee \notin {"", "null"} /\ ~IsValidUserIdString(assignee) THEN 400
  ELSE IF assignee \notin {"", "null"} /\ UserFindById(assignee) = "none" THEN 404
  ELSE 0

\* A variant that writes the project it has accepted before it looks at the
\* assignee.
UpdateIssueStartEager(r) ==
  /\ At(r, "UpdateIssue", "handler")
  /\ LET q == req[r]
         code == UpdateIssueStatus(q.iid, q.pid, q.assignedTo)
     IN /\ req' = [req EXCEPT ![r] =
                     IF code # 0 THEN Respond(q, code) ELSE [q EXCEPT !.pc = "save"]]
        /\ issues' = IF q.iid \in DOMAIN issues /\ q.pid \in DOMAIN projects
                       THEN [issues EXCEPT ![q.iid].project = q.pid,
                                           ![q.iid].assignedTo = "none"]
                       ELSE issues
  /\ UNCHANGED <<users, projects, comments, nextProject, nextIssue, nextComment>>
UpdateIssueStart(r) ==
  /\ At(r, "UpdateIssue", "handler")
  /\ LET q == req[r]
         code == UpdateIssueStatus(q.iid, q.pid, q.assignedTo)
     IN req' = [req EXCEPT ![r] =
                  IF code # 0 THEN Respond(q, code) ELSE [q EXCEPT !.pc = "save"]]
  /\ UNCHANGED store

\* issue.save(): the validators run, then the changed fields are written; a
\* document that was removed in the meantime is not written (the request
\* fails).
UpdateIssueSave(r) ==
  /\ At(r, "UpdateIssue", "save")
  /\ LET q == req[r] IN
     IF ~IsValidIssueTitle(q.name)
       THEN /\ issues' = issues
            /\ req' = [req EXCEPT ![r] = Respond(q, ErrorStatus("ValidationError"))]
     ELSE IF q.iid \in DOMAIN issues
       THEN /\ issues' = [issues EXCEPT ![q.iid] =
                            [@ EXCEPT !.project = IF q.pid = NoId THEN @ ELSE q.pid,
                                      !.assignedTo = IF q.assignedTo = "" THEN @
                                                     ELSE IF q.assignedTo = "null" THEN "none"
                                                     ELSE Canon(q.assignedTo)]]
            /\ req' = [req EXCEPT ![r] = Respond(q, 200)]
       ELSE /\ issues' = issues
            /\ req' = [req EXCEPT ![r] = Respond(q, 500)]
  /\ UNCHANGED <<users, projects, comments, nextProject, nextIssue, nextComment>>

\* ------------------------------------------------- DELETE /api/issues/:id
DeleteIssueStatus(u, iid) ==
  IF ~IsValidObjectId(iid) THEN 400
  ELSE IF iid \notin DOMAIN issues THEN 404
  ELSE IF ~CanDeleteIssue(u, issues[iid]) THEN 401
  ELSE 0

DeleteIssueStart(r) ==
  /\ At(r, "DeleteIssue", "handler")
  /\ LET q == req[r]
         code == DeleteIssueStatus(q.user, q.iid)
     IN req' = [req EXCEPT ![r] =
                  IF code # 0 THEN Respond(q, code) ELSE [q EXCEPT !.pc = "preDeleteOne"]]
  /\ UNCHANGED store

\* issue.deleteOne(), first part: the pre('deleteOne') document hook; removed
\* is the set of comments its deleteMany deleted.
\* A variant registered with post('deleteOne'): the document goes first.
DeleteIssueHookAsPost(r) ==
  /\ At(r, "DeleteIssue", "preDeleteOne")
  /\ issues' = Remove(issues, req[r].iid)
  /\ req' = [req EXCEPT ![r] = [@ EXCEPT !.pc = "deleteOne"]]
  /\ UNCHANGED <<users, projects, comments, nextProject, nextIssue, nextComment>>
DeleteIssueHook(r) ==
  /\ At(r, "DeleteIssue", "preDeleteOne")
  /\ comments' = CommentDeleteMany(comments, req[r].iid)
  /\ req' = [req EXCEPT ![r] = [@ EXCEPT !.pc = "deleteOne",
                                         !.removed = DOMAIN comments \ DOMAIN comments']]
  /\ UNCHANGED <<users, projects, issues, nextProject, nextIssue, nextComment>>

\* The hook's deleteMany rejects: any part of the issue's comments may be
\* gone by then. The catch hands the error to next(err), deleteOne rejects
\* without removing the document and the error handler answers.
\* A variant whose catch goes on with next().
DeleteIssueHookFailsSilently(r) ==
  /\ At(r, "DeleteIssue", "preDeleteOne")
  /\ \E gone \in SUBSET {c \in DOMAIN comments : comments[c].issue = req[r].iid} :
       /\ comments' = [c \in DOMAIN comments \ gone |-> comments[c]]
       /\ req' = [req EXCEPT ![r] = [@ EXCEPT !.pc = "deleteOne",
                                              !.removed = gone, !.failed = "children"]]
  /\ UNCHANGED <<users, projects, issues, nextProject, nextIssue, nextComment>>
DeleteIssueHookFails(r) ==
  /\ At(r, "DeleteIssue", "preDeleteOne")
  /\ \E gone \in SUBSET {c \in DOMAIN comments : comments[c].issue = req[r].iid} :
       /\ comments' = [c \in DOMAIN comments \ gone |-> comments[c]]
       /\ req' = [req EXCEPT ![r] = [Respond(@, ErrorStatus("MongoError")) EXCEPT
                                       !.removed = gone, !.failed = "children"]]
  /\ UNCHANGED <<users, projects, issues, nextProject, nextIssue, nextComment>>

\* The removal of the issue document rejects: the document is still stored,
\* or it is gone and the acknowledgement was lost.
DeleteIssueOneFails(r) ==
  /\ At(r, "DeleteIssue", "deleteOne")
  /\ issues' \in {issues, Remove(issues, req[r].iid)}
  /\ req' = [req EXCEPT ![r] = [Respond(@, ErrorStatus("MongoError")) EXCEPT !.failed = "parent"]]
  /\ UNCHANGED <<users, projects, comments, nextProject, nextIssue, nextComment>>

\* issue.deleteOne(), second part: the document is removed.
DeleteIssueOne(r) ==
  /\ At(r, "DeleteIssue", "deleteOne")
  /\ issues' = Remove(issues, req[r].iid)
  /\ req' = [req EXCEPT ![r] = Respond(@, 200)]
  /\ UNCHANGED <<users, projects, comments, nextProject, nextIssue, nextComment>>

\* ------------------------------------- POST /api/issues/:issueId/comments
\* The body carries content (name; "" when not given).
CreateCommentStatus(content, iid) ==
  IF content = "" THEN 400
  ELSE IF ~IsValidObjectId(iid) THEN 400
  ELSE IF iid \notin DOMAIN issues THEN 404
  ELSE 0

\* The validators of commentSchema.content, on the trimmed string.
IsValidCommentContent(c) == Len(c) >= 1 /\ Len(c) <= 1000

CreateCommentStart(r) ==
  /\ At(r, "CreateComment", "handler")
  /\ LET q == req[r]
         code == CreateCommentStatus(q.name, q.iid)
     IN req' = [req EXCEPT ![r] =
                  IF code # 0 THEN Respond(q, code) ELSE [q EXCEPT !.pc = "save"]]
  /\ UNCHANGED store

\* newComment.save(): the validators run, then the document is inserted; a
\* ValidationError goes to the error handler.
CreateCommentSave(r) ==
  /\ At(r, "CreateComment", "save")
  /\ LET q == req[r] IN
     IF IsValidCommentContent(Trim(q.name))
       THEN /\ comments' = Insert(comments, nextComment,
                                  [issue |-> q.iid, author |-> q.user])
            /\ nextComment' = nextComment + 1
            /\ req' = [req EXCEPT ![r] = Respond(q, 201)]
       ELSE /\ UNCHANGED <<comments, nextComment>>
            /\ req' = [req EXCEPT ![r] = Respond(q, ErrorStatus("ValidationError"))]
  /\ UNCHANGED <<users, projects, issues, nextProject, nextIssue>>

\* --------------------------- DELETE /api/issues/:issueId/comments/:commentId
\* A variant without the comparison of comment.issue with :issueId.
DeleteCommentStatusAnyIssue(u, iid, cid) ==
  IF ~IsValidObjectId(iid) \/ ~IsValidObjectId(cid) THEN 400
  ELSE IF cid \notin DOMAIN comments THEN 404
  ELSE IF ~CanDeleteComment(u, comments[cid]) THEN 401
  ELSE 0
DeleteCommentStatus(u, iid, cid) ==
  IF ~IsValidObjectId(iid) \/ ~IsValidObjectId(cid) THEN 400
  ELSE IF cid \notin DOMAIN comments THEN 404
  ELSE IF comments[cid].issue # iid THEN 400
  ELSE IF ~CanDeleteComment(u, comments[cid]) THEN 401
  ELSE 0

DeleteCommentStart(r) ==
  /\ At(r, "DeleteComment", "handler")
  /\ LET q == req[r]
         code == DeleteCommentStatus(q.user, q.iid, q.cid)
     IN req' = [req EXCEPT ![r] =
                  IF code # 0 THEN Respond(q, code) ELSE [q EXCEPT !.pc = "deleteOne"]]
  /\ UNCHANGED store

\* comment.deleteOne()
DeleteCommentOne(r) ==
  /\ At(r, "DeleteComment", "deleteOne")
  /\ comments' = Remove(comments, req[r].cid)
  /\ req' = [req EXCEPT ![r] = Respond(@, 200)]
  /\ UNCHANGED <<users, projects, issues, nextProject, nextIssue, nextComment>>

\* ------------------------------------------------ protect (middleware/auth)
\* The token the gate takes: from the Authorization header when that starts
\* with 'Bearer', else from the cookie named token when that is truthy.
ExtractToken(h, c) ==
  IF h.scheme = "Bearer" THEN h.token
  ELSE IF c.kind \notin {"absent", "empty"} THEN c
  ELSE Absent

\* !token || typeof token !== 'string' || token.trim() === ''
IsMissing(t) == t.kind \in {"absent", "empty", "blank"}

\* jwt.verify(token, JWT_SECRET): "ok", or the name of the error it throws.
\* A variant that does not look at the expiry.
VerifyIgnoringExpiry(t) ==
  IF t.kind # "jwt" \/ ~t.signed THEN "JsonWebTokenError" ELSE "ok"
Verify(t) ==
  IF t.kind # "jwt" THEN "JsonWebTokenError"
  ELSE IF ~t.signed THEN "JsonWebTokenError"
  ELSE IF t.expired THEN "TokenExpiredError"
  ELSE "ok"

Rejected(m, c) == [status |-> 401, msg |-> m, cleared |-> c, user |-> "none"]

\* What protect does with a request: status 0 and the user found stand for
\* next(); otherwise the 401 it answers, its message, and whether it
\* overwrote the token cookie.
\* A variant that goes on without looking the user up.
ProtectOutcomeWithoutLookup(h, c) ==
  LET t == ExtractToken(h, c) IN
  IF IsMissing(t) THEN Rejected("no token", FALSE)
  ELSE IF Verify(t) = "JsonWebTokenError" THEN Rejected("invalid token", FALSE)
  ELSE IF Verify(t) = "TokenExpiredError" THEN Rejected("token expired", TRUE)
  ELSE [status |-> 0, msg |-> "", cleared |-> FALSE, user |-> t.id]
ProtectOutcome(h, c) ==
  LET t == ExtractToken(h, c) IN
  IF IsMissing(t) THEN Rejected("no token", FALSE)
  ELSE IF Verify(t) = "JsonWebTokenError" THEN Rejected("invalid token", FALSE)
  ELSE IF Verify(t) = "TokenExpiredError" THEN Rejected("token expired", TRUE)
  ELSE IF UserFindById(t.id) = "none" THEN Rejected("user not found", TRUE)
  ELSE [status |-> 0, msg |-> "", cleared |-> FALSE, user |-> UserFindById(t.id)]

\* The request q of a protected route as it reaches protect, with its header
\* and its cookie and no identity yet.
Gated(q, h, c) ==
  [q EXCEPT !.pc = "protect", !.user = "none", !.header = h, !.cookie = c]

Protect(r) ==
  /\ req[r].pc = "protect"
  /\ LET q == req[r]
         out == ProtectOutcome(q.header, q.cookie)
     IN req' = [req EXCEPT ![r] =
                  IF out.status # 0
                    THEN [Respond(q, out.status) EXCEPT !.msg = out.msg, !.cleared = out.cleared]
                    ELSE [q EXCEPT !.pc = "handler",
                                   !.user = out.user,
                                   !.role = IF out.user \in DOMAIN users
                                              THEN users[out.user].role ELSE "",
                                   !.fields = Select("-password")]]
  /\ UNCHANGED store

\* ---------------------------------------------- authorize (middleware/auth)
\* !req.user || !roles.includes(req.user.role) is the denial; role "" stands
\* for a req.user without a role.
\* A variant that looks at the role only when there is a req.user.
AuthorizePassesWithoutUser(u, role, roles) == u = "none" \/ role \in roles
AuthorizePasses(u, role, roles) == u # "none" /\ role \in roles

\* A request as it reaches authorize(...roles), with the req.user that the
\* middleware before it left.
Restricted(u, role, roles) ==
  [IdleReq EXCEPT !.op = "Restricted", !.pc = "authorize",
                  !.user = u, !.role = role, !.roles = roles]

Authorize(r) ==
  /\ req[r].pc = "authorize"
  /\ LET q == req[r] IN
     req' = [req EXCEPT ![r] =
               IF AuthorizePasses(q.user, q.role, q.roles)
                 THEN [q EXCEPT !.pc = "next"]
                 ELSE [Respond(q, 403) EXCEPT !.msg = "role not authorized"]]
  /\ UNCHANGED store

\* ------------------------------------------------- POST /api/auth/register
\* The email validator's regular expression, the password's minlength, the
\* username's maxlength and trim.
IsValidEmail(e) == e # "nomail"
IsValidPassword(p) == Len(p) >= 6
IsValidUsername(n) == Len(n) <= 50

\* User.findOne({ email })
UserFindOne(e) == {u \in DOMAIN users : users[u].email = e}

RegisterStatus(un, em, pw) ==
  IF un = "" \/ em = "" \/ pw = "" THEN 400
  ELSE IF UserFindOne(em) # {} THEN 400
  ELSE 0

RegisterStart(r) ==
  /\ At(r, "Register", "handler")
  /\ LET q == req[r]
         code == RegisterStatus(q.username, q.email, q.password)
     IN req' = [req EXCEPT ![r] =
                  IF code # 0
                    THEN [Respond(q, code) EXCEPT
                            !.msg = IF UserFindOne(q.email) # {}
                                      THEN "user exists" ELSE "enter all fields"]
                    ELSE [q EXCEPT !.pc = "create"]]
  /\ UNCHANGED store

\* User.create: the validators run, then the document is inserted under the
\* unique indexes on username and email. "none" stands for no error.
\* A variant without the unique indexes.
UserCreateErrorWithoutIndexes(un, em, pw) ==
  IF ~IsValidUsername(un) \/ ~IsValidEmail(em) \/ ~IsValidPassword(pw) THEN "ValidationError"
  ELSE "none"
UserCreateError(un, em, pw) ==
  IF ~IsValidUsername(un) \/ ~IsValidEmail(em) \/ ~IsValidPassword(pw) THEN "ValidationError"
  ELSE IF \E u \in DOMAIN users : users[u].username = Trim(un) \/ users[u].email = em
    THEN "DuplicateKey"
  ELSE "none"

\* User.create({ username, email, password }) with the three fields the
\* handler takes from the body: the role is the schema's default, the
\* username is trimmed and the password hashed by the pre-save hook.
\* A variant that hands the whole body to User.create.
NewUserFromBody(q) ==
  [role |-> IF q.bodyRole = "" THEN "user" ELSE q.bodyRole,
   username |-> Trim(q.username), email |-> q.email, password |-> Hash(q.password)]
NewUser(q) ==
  [role |-> "user", username |-> Trim(q.username), email |-> q.email,
   password |-> Hash(q.password)]

RegisterCreate(r) ==
  /\ At(r, "Register", "create")
  /\ LET q == req[r]
         err == UserCreateError(q.username, q.email, q.password)
     IN IF err = "none"
          THEN /\ users' = Insert(users, FreshUserIds[Registered + 1], NewUser(q))
               /\ req' = [req EXCEPT ![r] = [Respond(q, 201) EXCEPT !.issued = TRUE]]
          ELSE /\ users' = users
               /\ req' = [req EXCEPT ![r] = [Respond(q, ErrorStatus(err)) EXCEPT !.msg = err]]
  /\ UNCHANGED <<projects, issues, comments, nextProject, nextIssue, nextComment>>

\* ---------------------------------------------------- POST /api/auth/login
LoginStatus(em, pw) ==
  IF em = "" \/ pw = "" THEN 400
  ELSE IF UserFindOne(em) = {} THEN 400
  ELSE IF \A u \in UserFindOne(em) : ~MatchPassword(pw, users[u].password) THEN 400
  ELSE 200

Login(r) ==
  /\ At(r, "Login", "handler")
  /\ LET q == req[r]
         code == LoginStatus(q.email, q.password)
     IN req' = [req EXCEPT ![r] = [Respond(q, code) EXCEPT !.issued = (code = 200)]]
  /\ UNCHANGED store

\* ------------------------------------------- GET /api/auth/logout and /me
Logout(r) ==
  /\ At(r, "Logout", "handler")
  /\ req' = [req EXCEPT ![r] = [Respond(@, 200) EXCEPT !.cleared = TRUE]]
  /\ UNCHANGED store

\* User.findById(req.user.id) gives null for a user removed since protect,
\* and user._id then throws.
Me(r) ==
  /\ At(r, "Me", "handler")
  /\ req' = [req EXCEPT ![r] =
               Respond(@, IF @.user \in DOMAIN users THEN 200 ELSE ErrorStatus("TypeError"))]
  /\ UNCHANGED store

\* ------------------------------------------- GET /api/users and /:id
ListUsers(r) ==
  /\ At(r, "ListUsers", "handler")
  /\ req' = [req EXCEPT ![r] = Respond(@, 200)]
  /\ UNCHANGED store

\* The names routes/users.js binds with require; its handler for /:id
\* evaluates mongoose.Types.ObjectId.isValid first.
UsersRouteBindings == {"express", "router", "protect", "authorize", "asyncHandler", "User"}

GetUserStatus(uid) ==
  IF "mongoose" \notin UsersRouteBindings THEN ErrorStatus("ReferenceError")
  ELSE IF ~IsValidUserIdString(uid) THEN 400
  ELSE IF UserFindById(uid) = "none" THEN 404
  ELSE 200

GetUser(r) ==
  /\ At(r, "GetUser", "handler")
  /\ req' = [req EXCEPT ![r] = Respond(@, GetUserStatus(@.uid))]
  /\ UNCHANGED store

\* ------------------------------------------------------- specifications
\* Every stored user may send any request.
Callers == UserIds

\* The steps of the handlers, whatever arrives.
ProjectSteps(r) ==
  \/ ViewProject(r)
  \/ CreateProjectStart(r)
  \/ CreateProjectSave(r)
  \/ UpdateProjectStart(r)
  \/ UpdateProjectSave(r)
  \/ DeleteProjectStart(r)
  \/ DeleteProjectIssues(r)
  \/ DeleteProjectOne(r)

IssueSteps(r) ==
  \/ CreateIssueStart(r)
  \/ CreateIssueSave(r)
  \/ DeleteIssueStart(r)
  \/ DeleteIssueHook(r)
  \/ DeleteIssueOne(r)
  \/ CreateCommentStart(r)
  \/ CreateCommentSave(r)
  \/ DeleteCommentStart(r)
  \/ DeleteCommentOne(r)

\* Spec: one request at a time, every handler; projects are created by u1
\* with no member list and are not renamed, issues and comments are created
\* by the two plain users.
SpecRequests ==
  ViewProjectReqs(Callers)
    \cup CreateProjectReqs({"u1"}, {"Alpha"}, {NoInput})
    \cup UpdateProjectReqs(Callers, {""}, {NoInput})
    \cup DeleteProjectReqs(Callers)
    \cup CreateIssueReqs({"u1", "u2"})
    \cup DeleteIssueReqs(Callers)
    \cup CreateCommentReqs({"u1", "u2"})
    \cup DeleteCommentReqs(Callers)

Next ==
  \E r \in {"r1"} :
    \/ Arrive(r, SpecRequests)
    \/ Finish(r)
    \/ ProjectSteps(r)
    \/ IssueSteps(r)

Spec == Init /\ [][Next]_vars

\* SpecProjects: one request at a time, the project handlers only, with
\* member lists and renames; projects are created by the two plain users.
ProjectRequests ==
  ViewProjectReqs(Callers)
    \cup CreateProjectReqs({"u1", "u2"}, Names, MemberInputs)
    \cup UpdateProjectReqs(Callers, {"", "Beta"}, MemberInputs)
    \cup DeleteProjectReqs(Callers)

NextProjects ==
  \E r \in {"r1"} :
    \/ Arrive(r, ProjectRequests)
    \/ Finish(r)
    \/ ProjectSteps(r)

SpecProjects == Init /\ [][NextProjects]_vars

\* SpecConcurrent: two requests in flight, interleaved at every repository
\* call; user u1 creates and deletes projects, issues and comments.
ConcurrentRequests ==
  CreateProjectReqs({"u1"}, {"Alpha"}, {NoInput})
    \cup DeleteProjectReqs({"u1"})
    \cup CreateIssueReqs({"u1"})
    \cup DeleteIssueReqs({"u1"})
    \cup CreateCommentReqs({"u1"})

NextConcurrent ==
  \E r \in Slots :
    \/ Arrive(r, ConcurrentRequests)
    \/ Finish(r)
    \/ CreateProjectStart(r)
    \/ CreateProjectSave(r)
    \/ DeleteProjectStart(r)
    \/ DeleteProjectIssues(r)
    \/ DeleteProjectOne(r)
    \/ CreateIssueStart(r)
    \/ CreateIssueSave(r)
    \/ DeleteIssueStart(r)
    \/ DeleteIssueHook(r)
    \/ DeleteIssueOne(r)
    \/ CreateCommentStart(r)
    \/ CreateCommentSave(r)

SpecConcurrent == Init /\ [][NextConcurrent]_vars

\* SpecGate: one request at a time through protect and authorize, the auth
\* and users routes, and the routes that answer with populated users.
GateTokens ==
  {Absent, EmptyString, Whitespace, NotAJwt}
    \cup {Jwt(sg, ex, i) : sg \in BOOLEAN, ex \in BOOLEAN, i \in {"u1", "adm", "ghost"}}
GateHeaders ==
  {NoHeader, Header("Basic", Absent)} \cup {Header("Bearer", t) : t \in GateTokens}
\* The credentials of a client that logged in: the token as Bearer header,
\* or as cookie.
LoggedIn(u) ==
  {<<Header("Bearer", GetSignedJwtToken(u)), Absent>>, <<NoHeader, GetSignedJwtToken(u)>>}
Behind(R, HC) == {Gated(q, hc[1], hc[2]) : q \in R, hc \in HC}

GateRequests ==
  Behind({Request("Me", "none")}, GateHeaders \X GateTokens)
    \cup Behind({Request("Logout", "none"), Request("ListUsers", "none")}
                  \cup GetUserReqs({"none"}, {"u1", "ghost", "bad"}),
                LoggedIn("u1") \cup LoggedIn("adm"))
    \cup Behind(ViewProjectReqs({"none"})
                  \cup CreateProjectReqs({"none"}, {"Alpha"}, {NoInput})
                  \cup CreateIssueReqs({"none"})
                  \cup CreateCommentReqs({"none"}),
                {<<Header("Bearer", GetSignedJwtToken("u1")), Absent>>})
    \cup {Restricted(i[1], i[2], rs) :
            i \in {<<"none", "">>, <<"u1", "">>, <<"u1", "user">>, <<"adm", "admin">>},
            rs \in SUBSET (SystemRoles \cup {"manager"})}
    \cup RegisterReqs({"", "ann"}, {"", "ann@x", "u1@x"}, {"", "secret", "short"})
    \cup LoginReqs({"", "u1@x", "ann@x"}, {"", "secret", "wrong!"})

NextGate ==
  \E r \in {"r1"} :
    \/ Arrive(r, GateRequests)
    \/ Finish(r)
    \/ Protect(r)
    \/ Authorize(r)
    \/ RegisterStart(r)
    \/ RegisterCreate(r)
    \/ Login(r)
    \/ Logout(r)
    \/ Me(r)
    \/ ListUsers(r)
    \/ GetUser(r)
    \/ ViewProject(r)
    \/ CreateProjectStart(r)
    \/ CreateProjectSave(r)
    \/ CreateIssueStart(r)
    \/ CreateIssueSave(r)
    \/ CreateCommentStart(r)
    \/ CreateCommentSave(r)

SpecGate == Init /\ [][NextGate]_vars

\* SpecList: the listing of issues, one request at a time, over a store of
\* two projects of u1 that holds up to MaxListed issues of the first project
\* and none or three of the second.
ListedProject(p, n) == [name |-> n, createdBy |-> "u1",
                        members |-> <<[user |-> "u1", role |-> "manager"]>>]
InitList ==
  /\ users = [u \in UserIds |-> SeedUser(u)]
  /\ projects = <<ListedProject(1, "Alpha"), ListedProject(2, "Beta")>>
  /\ \E n1 \in 0..MaxListed, n2 \in {0, 3} :
       /\ issues = [i \in 1..(n1 + n2) |->
                      [project |-> IF i <= n1 THEN 1 ELSE 2, createdBy |-> "u1",
                       assignedTo |-> "none"]]
       /\ nextIssue = n1 + n2 + 1
  /\ comments = << >>
  /\ nextProject = 3
  /\ nextComment = 1
  /\ req = [r \in Slots |-> IdleReq]

ListRequests ==
  ListIssuesReqs({"u1", "u2"}, {NoId, MalformedId, 1, 2}, {"", "1", "2", "3"}, {"", "1", "5", "10"})

NextList ==
  \E r \in {"r1"} :
    \/ Arrive(r, ListRequests)
    \/ Finish(r)
    \/ ListIssuesFind(r)
    \/ ListIssuesCount(r)

SpecList == InitList /\ [][NextList]_vars

\* SpecFrame: one request at a time, every route that writes, with bodies
\* that fail in each of the checks and validators as well as bodies that
\* pass; u1 creates, u2 and u1 update and delete; comments are written on
\* the first issue.
FailingMembers ==
  { NoInput,
    [given |-> TRUE, list |-> <<[user |-> "ghost", role |-> ""]>>],
    [given |-> TRUE, list |-> <<[user |-> "u2", role |-> "qa"], [user |-> "bad", role |-> ""]>>] }

FrameRequests ==
  CreateProjectReqs({"u1"}, {"", "ab", "Alpha"}, FailingMembers)
    \cup UpdateProjectReqs({"u1", "u2"}, {"", "ab"}, {NoInput})
    \cup UpdateProjectReqs({"u1"}, {"Beta"}, FailingMembers \ {NoInput})
    \cup DeleteProjectReqs({"u1", "u2"})
    \cup ViewProjectReqs({"u2"})
    \cup CreateIssueReqs({"u1"})
    \cup UpdateIssueReqs({"u2"}, {""}, {NoId, MalformedId, 1, MaxProjects + 1}, {""})
    \cup UpdateIssueReqs({"u2"}, {""}, {1}, {"u2", "ghost", "bad"})
    \cup UpdateIssueReqs({"u2"}, {"abc"}, {NoId}, {"null"})
    \cup DeleteIssueReqs({"u1", "u2"})
    \cup {q \in CreateCommentReqs({"u1"}) : q.iid <= 1}
    \cup DeleteCommentReqs({"u1", "u2"})
    \cup RegisterReqs({"", "ann", " ann"}, {"ann@x", "u1@x", "nomail"}, {"secret", "short"})
    \cup LoginReqs({"", "u1@x"}, {"secret", "wrong!"})
    \cup Behind({Request("Me", "none")},
                {<<NoHeader, Absent>>, <<NoHeader, NotAJwt>>, <<NoHeader, Jwt(TRUE, TRUE, "u1")>>,
                 <<NoHeader, GetSignedJwtToken("ghost")>>, <<NoHeader, GetSignedJwtToken("u1")>>})
    \cup {Restricted("u1", "user", {"admin"}), Restricted("adm", "admin", {"admin"})}

NextFrame ==
  \E r \in {"r1"} :
    \/ Arrive(r, FrameRequests)
    \/ Finish(r)
    \/ ProjectSteps(r)
    \/ IssueSteps(r)
    \/ UpdateIssueStart(r)
    \/ UpdateIssueSave(r)
    \/ RegisterStart(r)
    \/ RegisterCreate(r)
    \/ Login(r)
    \/ Protect(r)
    \/ Me(r)
    \/ Authorize(r)

SpecFrame == Init /\ [][NextFrame]_vars

\* SpecRegister: two register requests in flight, interleaved between the
\* lookup by email and the creation.
RegisterRequests ==
  RegisterReqs({"ann", " ann", "bob"}, {"ann@x", "bob@x", "u1@x"}, {"secret"})
    \cup RegisterReqs({"ann"}, {"", "nomail"}, {"secret", "short"})

NextRegister ==
  \E r \in Slots :
    \/ Arrive(r, RegisterRequests)
    \/ Finish(r)
    \/ RegisterStart(r)
    \/ RegisterCreate(r)

SpecRegister == Init /\ [][NextRegister]_vars

\* SpecRoles: one request at a time; registrations whose body names a
\* role, logins, the routes behind the gate for the seeded and the
\* registered accounts, and projects with member lists that name roles.
RoleRequests ==
  RegisterBodyReqs({"ann", "bob"}, {"ann@x", "bob@x", "u1@x"}, {"secret"}, {"", "user", "admin"})
    \cup LoginReqs({"u1@x", "ann@x"}, {"secret", "wrong!"})
    \cup Behind({Request("Me", "none"), Request("Logout", "none"), Request("ListUsers", "none")}
                  \cup GetUserReqs({"none"}, {"u1", "n1"}),
                {<<NoHeader, GetSignedJwtToken(u)>> : u \in {"u1", "adm", "n1"}})
    \cup {Restricted("n1", "user", {"admin"}), Restricted("adm", "admin", {"admin"})}
    \cup CreateProjectReqs({"u1"}, {"Alpha"},
                           {[given |-> TRUE, list |-> <<[user |-> "u2", role |-> "manager"]>>]})
    \cup UpdateProjectReqs({"u1", "adm"}, {""},
                           {[given |-> TRUE, list |-> <<[user |-> "u2", role |-> "developer"]>>]})
    \cup CreateIssueBodyReqs({"u2"}, {"Bug 1"}, {1}, {"", "u1"})
    \cup UpdateIssueReqs({"u2"}, {""}, {NoId}, {"adm", "null"})

NextRoles ==
  \E r \in {"r1"} :
    \/ Arrive(r, RoleRequests)
    \/ Finish(r)
    \/ Protect(r)
    \/ Authorize(r)
    \/ RegisterStart(r)
    \/ RegisterCreate(r)
    \/ Login(r)
    \/ Logout(r)
    \/ Me(r)
    \/ ListUsers(r)
    \/ GetUser(r)
    \/ CreateProjectStart(r)
    \/ CreateProjectSave(r)
    \/ UpdateProjectStart(r)
    \/ UpdateProjectSave(r)
    \/ CreateIssueStart(r)
    \/ CreateIssueSave(r)
    \/ UpdateIssueStart(r)
    \/ UpdateIssueSave(r)

SpecRoles == Init /\ [][NextRoles]_vars

\* SpecFailures: one request at a time; the plain users create projects,
\* issues and comments and delete comments, issues and projects, and each
\* database call of a cascading delete may fail.
FailureRequests ==
  CreateProjectReqs({"u1"}, {"Alpha"}, {NoInput})
    \cup CreateIssueReqs({"u1"})
    \cup CreateCommentReqs({"u1", "u2"})
    \cup DeleteIssueReqs({"u1", "u2"})
    \cup DeleteCommentReqs({"u1", "u2"})
    \cup DeleteProjectReqs({"u1", "u2"})

NextFailures ==
  \E r \in {"r1"} :
    \/ Arrive(r, FailureRequests)
    \/ Finish(r)
    \/ CreateProjectStart(r)
    \/ CreateProjectSave(r)
    \/ DeleteProjectStart(r)
    \/ DeleteProjectIssues(r)
    \/ DeleteProjectIssuesFails(r)
    \/ DeleteProjectOne(r)
    \/ DeleteProjectOneFails(r)
    \/ IssueSteps(r)
    \/ DeleteIssueHookFails(r)
    \/ DeleteIssueOneFails(r)

SpecFailures == Init /\ [][NextFailures]_vars

\* SpecNames: two requests at a time; u1 has created project Alpha before
\* (stored under the id after the ones the requests draw), and the plain
\* users create projects and u1 renames them.
InitNames ==
  /\ users = [u \in UserIds |-> SeedUser(u)]
  /\ projects = [p \in {MaxProjects + 1} |-> ListedProject(p, "Alpha")]
  /\ issues = << >>
  /\ comments = << >>
  /\ nextProject = 1
  /\ nextIssue = 1
  /\ nextComment = 1
  /\ req = [r \in Slots |-> IdleReq]

NameRequests ==
  CreateProjectReqs({"u1", "u2"}, {"", "Alpha", "Beta"}, {NoInput})
    \cup {[Request("UpdateProject", u) EXCEPT !.pid = p, !.name = n] :
           u \in {"u1", "u2"}, p \in 1..(MaxProjects + 1), n \in {"", "Alpha", "Beta"}}

NextNames ==
  \E r \in Slots :
    \/ Arrive(r, NameRequests)
    \/ Finish(r)
    \/ CreateProjectStart(r)
    \/ CreateProjectSave(r)
    \/ UpdateProjectStart(r)
    \/ UpdateProjectSave(r)

SpecNames == InitNames /\ [][NextNames]_vars

\* SpecVisible: one request at a time; the project handlers with member
\* lists, and the list of projects for every stored user.
VisibleRequests == ProjectRequests \cup ListProjectsReqs(Callers)

NextVisible ==
  \E r \in {"r1"} :
    \/ Arrive(r, VisibleRequests)
    \/ Finish(r)
    \/ ProjectSteps(r)
    \/ ListProjects(r)

SpecVisible == Init /\ [][NextVisible]_vars

\* SpecCreate: one request at a time; u1 creates and deletes the project,
\* every stored user creates issues and comments, with bodies that fail in
\* each check and validator as well as bodies that pass.
CreateRequests ==
  CreateProjectReqs({"u1"}, {"Alpha"}, {NoInput})
    \cup DeleteProjectReqs({"u1"})
    \cup CreateIssueBodyReqs(Callers, {"Bug 1"}, AnyPId \cup {NoId}, {""})
    \cup CreateIssueBodyReqs({"u2"}, {"", "Bug", "  "}, {1}, {""})
    \cup CreateIssueBodyReqs({"u2"}, {"Bug 1"}, {1}, {"null", "U2", "ghost", "bad"})
    \cup CreateCommentBodyReqs(Callers, {"ok"}, AnyIId)
    \cup CreateCommentBodyReqs({"u2"}, {"", "  "}, {1})

NextCreate ==
  \E r \in {"r1"} :
    \/ Arrive(r, CreateRequests)
    \/ Finish(r)
    \/ CreateProjectStart(r)
    \/ CreateProjectSave(r)
    \/ DeleteProjectStart(r)
    \/ DeleteProjectIssues(r)
    \/ DeleteProjectOne(r)
    \/ CreateIssueStart(r)
    \/ CreateIssueSave(r)
    \/ CreateCommentStart(r)
    \/ CreateCommentSave(r)

SpecCreate == Init /\ [][NextCreate]_vars

\* =================================================================== claims
Sent(r, o, code) == req[r].op = o /\ req[r].pc = "sent" /\ req[r].status = code
Denied(q) == q.pc = "sent" /\ q.status \in {401, 403}
IssuesOf(pid) == {i \in DOMAIN issues : issues[i].project = pid}
CommentsOf(iid) == {c \in DOMAIN comments : comments[c].issue = iid}

\* C1: when Delete Project has answered 200 for project P, the store holds
\* no project P, no issue with project = P, and no comment on an issue that
\* the request removed with P.
C1_DeleteProjectRemovesAll ==
  \A r \in Slots :
    Sent(r, "DeleteProject", 200) =>
      /\ req[r].pid \notin DOMAIN projects
      /\ IssuesOf(req[r].pid) = {}
      /\ \A c \in DOMAIN comments : comments[c].issue \notin req[r].removed

\* C2: Delete Issue on issue I changes the store in two steps only: the hook
\* removes exactly the comments with issue = I and leaves every other comment,
\* every issue and every project as it was; the removal of the document
\* removes exactly I and leaves every comment, every other issue and every
\* project as it was; the request then answers 200.
C2_DeleteIssueFrame ==
  [][\A r \in Slots :
       /\ At(r, "DeleteIssue", "handler") =>
            /\ UNCHANGED <<projects, issues, comments>>
            /\ req'[r].pc \in {"sent", "preDeleteOne"}
       /\ At(r, "DeleteIssue", "preDeleteOne") =>
            /\ UNCHANGED <<projects, issues>>
            /\ DOMAIN comments' = DOMAIN comments \ CommentsOf(req[r].iid)
            /\ \A c \in DOMAIN comments' : comments'[c] = comments[c]
            /\ req'[r].pc = "deleteOne"
       /\ At(r, "DeleteIssue", "deleteOne") =>
            /\ UNCHANGED <<projects, comments>>
            /\ DOMAIN issues' = DOMAIN issues \ {req[r].iid}
            /\ \A i \in DOMAIN issues' : issues'[i] = issues[i]
            /\ CommentsOf(req[r].iid) = {}
            /\ req'[r].pc = "sent" /\ req'[r].status = 200
    ]_vars

\* C2 witness: Delete Issue I has removed a comment of I while a sibling issue
\* of the same project keeps its comment.
C2_Witness ==
  \E r \in Slots :
    /\ At(r, "DeleteIssue", "deleteOne")
    /\ req[r].removed # {}
    /\ \E j \in DOMAIN issues :
         /\ j # req[r].iid
         /\ req[r].iid \in DOMAIN issues
         /\ issues[j].project = issues[req[r].iid].project
         /\ CommentsOf(j) # {}

\* C3: no issue is stored whose project is absent and no comment is stored
\* whose issue is absent.
C3_NoOrphans ==
  /\ \A i \in DOMAIN issues : issues[i].project \in DOMAIN projects
  /\ \A c \in DOMAIN comments : comments[c].issue \in DOMAIN issues

\* C4: Delete Project on an existing project by a caller who is neither its
\* creator nor an admin is answered with a denial in that same step, and the
\* projects, issues and comments are left as they were.
C4_DeleteProjectDenied ==
  [][\A r \in Slots :
       ( /\ At(r, "DeleteProject", "handler")
         /\ req[r].pid \in DOMAIN projects
         /\ projects[req[r].pid].createdBy # req[r].user
         /\ users[req[r].user].role # "admin" )
       => /\ Denied(req'[r])
          /\ UNCHANGED <<projects, issues, comments>>
    ]_vars

\* C4 witness: u2 was denied the deletion of a project that still has an issue
\* with a comment.
C4_Witness ==
  \E r \in Slots :
    /\ req[r].op = "DeleteProject" /\ Denied(req[r])
    /\ req[r].pid \in DOMAIN projects
    /\ projects[req[r].pid].createdBy # req[r].user
    /\ users[req[r].user].role # "admin"
    /\ \E i \in IssuesOf(req[r].pid) : CommentsOf(i) # {}

\* The caller of request q lacks the ownership or role its action needs.
OwnershipDenies(q) ==
  \/ /\ q.op = "ViewProject" /\ q.pid \in DOMAIN projects
     /\ projects[q.pid].createdBy # q.user
     /\ \A k \in 1..Len(projects[q.pid].members) : projects[q.pid].members[k].user # q.user
  \/ /\ q.op \in {"UpdateProject", "DeleteProject"} /\ q.pid \in DOMAIN projects
     /\ projects[q.pid].createdBy # q.user
     /\ users[q.user].role # "admin"
  \/ /\ q.op = "DeleteIssue" /\ q.iid \in DOMAIN issues
     /\ issues[q.iid].createdBy # q.user
  \/ /\ q.op = "DeleteComment" /\ q.cid \in DOMAIN comments
     /\ comments[q.cid].issue = q.iid
     /\ comments[q.cid].author # q.user

\* C5: a request that is sent back because the caller lacks the ownership or
\* role the action needs (the resource exists) carries status 403.
C5_DenialIsForbidden ==
  \A r \in Slots :
    req[r].pc = "sent" /\ OwnershipDenies(req[r]) => req[r].status = 403

\* The role of the first members entry of user u, and whether u has one.
RoleOf(p, u) == SelectSeq(p.members, LAMBDA m : m.user = u)[1].role
HasEntry(p, u) == \E k \in 1..Len(p.members) : p.members[k].user = u

\* C6: every stored project has a members entry for its creator; the entry
\* the creation puts first is the creator's, with role manager; an update
\* keeps the creator and the role of the creator's entry.
C6_CreatorIsMember ==
  /\ [](\A p \in DOMAIN projects : HasEntry(projects[p], projects[p].createdBy))
  /\ [][\A r \in Slots :
          /\ At(r, "CreateProject", "save") =>
               /\ nextProject \in DOMAIN projects'
               /\ projects'[nextProject].createdBy = req[r].user
               /\ projects'[nextProject].members[1] = [user |-> req[r].user, role |-> "manager"]
          /\ At(r, "UpdateProject", "save") /\ req[r].pid \in DOMAIN projects =>
               /\ req[r].pid \in DOMAIN projects'
               /\ projects'[req[r].pid].createdBy = projects[req[r].pid].createdBy
               /\ HasEntry(projects'[req[r].pid], projects[req[r].pid].createdBy)
               /\ RoleOf(projects'[req[r].pid], projects[req[r].pid].createdBy)
                    = RoleOf(projects[req[r].pid], projects[req[r].pid].createdBy)
     ]_vars

\* C6 witness: an admin who is not the creator has replaced the members list
\* of a project, which now lists the creator and another user.
C6_Witness ==
  \E r \in Slots :
    /\ Sent(r, "UpdateProject", 200)
    /\ req[r].setMembers
    /\ users[req[r].user].role = "admin"
    /\ projects[req[r].pid].createdBy # req[r].user
    /\ HasEntry(projects[req[r].pid], projects[req[r].pid].createdBy)
    /\ Len(projects[req[r].pid].members) > 1

\* The caller of q is the project's creator or an admin; every listed member
\* id of q is the id of a stored user.
AllowedToModify(q) ==
  projects[q.pid].createdBy = q.user \/ users[q.user].role = "admin"
InputResolves(q) ==
  \A k \in 1..Len(q.input.list) : Canon(q.input.list[k].user) \in DOMAIN users

\* C7: on an existing project, Update Project and Delete Project go on to
\* their writes exactly when the caller is the creator or an admin (an update
\* whose member list names only stored users), and are otherwise denied with
\* the projects left as they were; the update that goes on is written.
C7_ModifyIffCreatorOrAdmin ==
  [][\A r \in Slots :
       /\ At(r, "UpdateProject", "handler") /\ req[r].pid \in DOMAIN projects =>
            /\ req'[r].pc = "save" => AllowedToModify(req[r])
            /\ AllowedToModify(req[r]) /\ InputResolves(req[r]) => req'[r].pc = "save"
            /\ Denied(req'[r]) <=> ~AllowedToModify(req[r])
            /\ UNCHANGED projects
       /\ At(r, "UpdateProject", "save") /\ req[r].pid \in DOMAIN projects =>
            req'[r].pc = "sent" /\ req'[r].status = 200
       /\ At(r, "DeleteProject", "handler") /\ req[r].pid \in DOMAIN projects =>
            /\ req'[r].pc = "deleteIssues" <=> AllowedToModify(req[r])
            /\ Denied(req'[r]) <=> ~AllowedToModify(req[r])
            /\ UNCHANGED projects
       /\ At(r, "DeleteProject", "deleteOne") =>
            /\ req[r].pid \notin DOMAIN projects'
            /\ req'[r].pc = "sent" /\ req'[r].status = 200
    ]_vars

\* C7 witness: a member with project role manager, who is neither creator
\* nor admin, was denied an update or a deletion.
C7_Witness ==
  \E r \in Slots :
    /\ req[r].op \in {"UpdateProject", "DeleteProject"} /\ Denied(req[r])
    /\ req[r].pid \in DOMAIN projects
    /\ projects[req[r].pid].createdBy # req[r].user
    /\ \E k \in 1..Len(projects[req[r].pid].members) :
         projects[req[r].pid].members[k] = [user |-> req[r].user, role |-> "manager"]

\* The caller of q is the project's creator or one of its members.
AllowedToView(q) ==
  projects[q.pid].createdBy = q.user \/ HasEntry(projects[q.pid], q.user)

\* C8: View Project on an existing project answers 200 exactly when the
\* caller is its creator or is the user of one of its members entries, and
\* is denied otherwise.
C8_ViewIffCreatorOrMember ==
  [][\A r \in Slots :
       At(r, "ViewProject", "handler") /\ req[r].pid \in DOMAIN projects =>
         /\ req'[r].pc = "sent"
         /\ req'[r].status = 200 <=> AllowedToView(req[r])
         /\ Denied(req'[r]) <=> ~AllowedToView(req[r])
    ]_vars

\* C8 witness: an admin who is neither creator nor member was denied the view
\* of a project that has a member besides its creator.
C8_Witness ==
  \E r \in Slots :
    /\ req[r].op = "ViewProject" /\ Denied(req[r])
    /\ users[req[r].user].role = "admin"
    /\ req[r].pid \in DOMAIN projects
    /\ Len(projects[req[r].pid].members) > 1

TokenTaken(q) == IF q.header.scheme = "Bearer" THEN q.header.token ELSE q.cookie
Verifies(t) == t.kind = "jwt" /\ t.signed /\ ~t.expired
Yields(t) == t.kind \notin {"absent", "empty", "blank"}

\* C11: protect hands a request on to its handler only when the request's
\* token verifies and its user id is the id of a stored user, and the
\* identity it attaches is that user; a request whose token verifies but
\* names no stored user is answered 401 with the token cookie overwritten
\* and is not handed on. The stores are left as they were.
C11_ProtectAdmitsStoredUsersOnly ==
  [][\A r \in Slots :
       req[r].pc = "protect" =>
         LET t == TokenTaken(req[r]) IN
         /\ req'[r].pc \in {"handler", "sent"}
         /\ req'[r].pc = "handler" =>
              /\ Verifies(t)
              /\ t.id \in DOMAIN users
              /\ req'[r].user = t.id
              /\ req'[r].role = users[t.id].role
         /\ Verifies(t) /\ t.id \notin DOMAIN users =>
              /\ req'[r].pc = "sent"
              /\ req'[r].status = 401
              /\ req'[r].cleared
         /\ UNCHANGED <<users, projects, issues, comments>>
    ]_vars

\* C11 witness: a request whose signed, unexpired cookie token names no
\* stored user was answered 401 with the cookie overwritten.
C11_Witness ==
  \E r \in Slots :
    /\ req[r].pc = "sent" /\ req[r].status = 401 /\ req[r].cleared
    /\ req[r].header.scheme # "Bearer"
    /\ Verifies(req[r].cookie)
    /\ req[r].cookie.id \notin DOMAIN users

\* C12: the gate works on the token of the Bearer header when that header
\* yields one and otherwise on the token of the cookie, and it answers with
\* the missing-token 401 only when neither the header nor the cookie yields
\* a token.
C12_CookieFallback ==
  [][\A r \in Slots :
       req[r].pc = "protect" =>
         LET h == req[r].header
             c == req[r].cookie
             headerYields == h.scheme = "Bearer" /\ Yields(h.token)
         IN
         /\ (req'[r].pc = "sent" /\ req'[r].msg = "no token")
              => (~headerYields /\ ~Yields(c))
         /\ (~headerYields /\ Verifies(c) /\ c.id \in DOMAIN users)
              => (req'[r].pc = "handler" /\ req'[r].user = c.id)
         /\ (headerYields /\ Verifies(h.token) /\ h.token.id \in DOMAIN users)
              => (req'[r].pc = "handler" /\ req'[r].user = h.token.id)
    ]_vars

\* C13: a request whose token has a valid signature and has expired is
\* answered 401 with the expired-token message, never the invalid-token
\* one, and with the token cookie overwritten.
C13_ExpiredIsExpired ==
  [][\A r \in Slots :
       ( /\ req[r].pc = "protect"
         /\ TokenTaken(req[r]).kind = "jwt"
         /\ TokenTaken(req[r]).signed
         /\ TokenTaken(req[r]).expired )
       => /\ req'[r].pc = "sent"
          /\ req'[r].status = 401
          /\ req'[r].msg = "token expired"
          /\ req'[r].cleared
    ]_vars

\* C13 witness: an expired, signed cookie token of a stored user was answered
\* with the expired-token 401 and the cookie overwritten.
C13_Witness ==
  \E r \in Slots :
    /\ req[r].pc = "sent" /\ req[r].status = 401
    /\ req[r].msg = "token expired" /\ req[r].cleared
    /\ req[r].header.scheme # "Bearer"
    /\ req[r].cookie = Jwt(TRUE, TRUE, "u1")

\* C14: every 401 the gate answers because the token is invalid or expired
\* comes with the token cookie overwritten.
C14_RejectionClearsCookie ==
  \A r \in Slots :
    ( /\ req[r].pc = "sent"
      /\ req[r].status = 401
      /\ req[r].msg \in {"invalid token", "token expired"} )
    => req[r].cleared

\* C15: authorize(roles) calls next exactly when the request has an identity
\* whose role is one of roles; a request without an identity or without a
\* role is answered 403 and next is not called.
C15_AuthorizeIffRoleAllowed ==
  [][\A r \in Slots :
       req[r].pc = "authorize" =>
         /\ req'[r].pc = "next"
              <=> (req[r].user # "none" /\ req[r].role # "" /\ req[r].role \in req[r].roles)
         /\ req'[r].pc # "next" => (req'[r].pc = "sent" /\ req'[r].status = 403)
         /\ (req[r].user = "none" \/ req[r].role = "")
              => (req'[r].pc = "sent" /\ req'[r].status = 403)
    ]_vars

\* C15 witness: a request with an identity that has no role was answered 403
\* by a gate that allows some role.
C15_Witness ==
  \E r \in Slots :
    /\ Sent(r, "Restricted", 403)
    /\ req[r].user # "none"
    /\ req[r].role = ""
    /\ req[r].roles # {}

\* C16: no response carries the password path of a user document, whatever
\* the route (register, login, me, the users routes, the project, issue and
\* comment routes that populate users), and no identity that protect
\* attaches to a request carries it.
C16_PasswordNeverSent ==
  \A r \in Slots :
    /\ "password" \notin req[r].exposed
    /\ "password" \notin req[r].fields

\* C16 witness: the login of a registered account, which loads the user with
\* its password hash, answered 200 with a user object and a token.
C16_Witness ==
  \E r \in Slots :
    /\ Sent(r, "Login", 200)
    /\ req[r].issued
    /\ \E u \in DOMAIN users \ UserIds :
         users[u].email = req[r].email /\ users[u].password = Hash(req[r].password)
    /\ req[r].exposed = {"id", "username", "email", "role"}

\* C19: GET /api/users/:id for an authenticated caller answers 400 for a
\* malformed id, 404 for a well-formed id of no user, and otherwise 200 with
\* the user's record without the password.
C19_GetUserAnswers ==
  \A r \in Slots :
    (req[r].op = "GetUser" /\ req[r].pc = "sent" /\ req[r].user # "none") =>
      /\ req[r].uid = "bad" => req[r].status = 400
      /\ (req[r].uid # "bad" /\ Canon(req[r].uid) \notin DOMAIN users) => req[r].status = 404
      /\ Canon(req[r].uid) \in DOMAIN users =>
           /\ req[r].status = 200
           /\ "password" \notin req[r].exposed
           /\ "username" \in req[r].exposed

\* The issues in the store that the filter of listing request q selects, and
\* the page number and page size q asks for.
Matching(q) == {i \in DOMAIN issues : q.pid = NoId \/ issues[i].project = q.pid}
AskedPage(q) == IF q.page = "" THEN 1 ELSE ParseInt(q.page)
AskedLimit(q) == IF q.limit = "" THEN 10 ELSE ParseInt(q.limit)
Min(a, b) == IF a < b THEN a ELSE b
Max(a, b) == IF a < b THEN b ELSE a

\* C17: a listing with page p and limit L (1 and 10 when not given) over n
\* issues matching the filter answers with min(L, max(0, n - (p-1)*L))
\* items, all of them different issues that match the filter, and total n.
C17_PageSize ==
  \A r \in Slots :
    Sent(r, "ListIssues", 200) =>
      LET q == req[r]
          n == Cardinality(Matching(q))
      IN /\ Len(q.items) = Min(AskedLimit(q), Max(0, n - (AskedPage(q) - 1) * AskedLimit(q)))
         /\ q.total = n
         /\ \A k \in 1..Len(q.items) : q.items[k] \in Matching(q)
         /\ \A k, l \in 1..Len(q.items) : k # l => q.items[k] # q.items[l]

\* C17 witness: page 2 with limit 10 over the 15 issues of project 1, in a
\* store that also holds issues of project 2, gave 5 items and total 15.
C17_Witness ==
  \E r \in Slots :
    /\ Sent(r, "ListIssues", 200)
    /\ req[r].page = "2" /\ req[r].limit = "10" /\ req[r].pid = 1
    /\ Cardinality(DOMAIN issues) > 15
    /\ Len(req[r].items) = 5
    /\ req[r].total = 15

\* C18: a request that is answered 400, 401, 403 or 404 has written nothing:
\* the step that sends such an answer leaves users, projects, issues and
\* comments as they were and is taken from a position of the request before
\* which the request writes nothing (the gate, the checks of the handler,
\* or the validators of its save), and no step of a request at the gate or
\* in the checks of its handler changes a stored document.
C18_ErrorsWriteNothing ==
  [][\A r \in Slots :
       /\ ( /\ req[r].pc \notin {"idle", "sent", "next"}
            /\ req'[r].pc = "sent"
            /\ req'[r].status \in {400, 401, 403, 404} )
          => /\ UNCHANGED <<users, projects, issues, comments>>
             /\ req[r].pc \in {"protect", "authorize", "handler", "save", "create"}
             /\ req[r].removed = {}
       /\ req[r].pc \in {"protect", "authorize", "handler"}
          => UNCHANGED <<users, projects, issues, comments>>
    ]_vars

\* C18 witness: an update of a project by its creator that carries a new
\* name and a members list whose second id is malformed was answered 400;
\* the project has its old name and its old members.
C18_Witness ==
  \E r \in Slots :
    /\ Sent(r, "UpdateProject", 400)
    /\ req[r].name = "Beta"
    /\ Len(req[r].input.list) = 2
    /\ req[r].input.list[1].user = "u2"
    /\ req[r].pid \in DOMAIN projects
    /\ projects[req[r].pid].createdBy = req[r].user
    /\ projects[req[r].pid].name = "Alpha"
    /\ Len(projects[req[r].pid].members) = 1

\* C20: at any time no two stored users have the same email and no two have
\* the same username; a register request that finds its email with a stored
\* user, at its lookup or at its creation, is answered 400, creates no user
\* and gets no token.
C20_UniqueUsers ==
  /\ [](\A u, v \in DOMAIN users :
          u # v => /\ users[u].email # users[v].email
                   /\ users[u].username # users[v].username)
  /\ [][\A r \in Slots :
          ( /\ req[r].op = "Register"
            /\ req[r].pc \in {"handler", "create"}
            /\ req'[r] # req[r]
            /\ \E u \in DOMAIN users : users[u].email = req[r].email )
          => /\ req'[r].pc = "sent"
             /\ req'[r].status = 400
             /\ ~req'[r].issued
             /\ users' = users
     ]_vars

\* C20 witness: a register request whose email was free at its lookup found
\* it taken at its creation by a user registered under another username, and
\* was answered 400.
C20_Witness ==
  \E r \in Slots :
    /\ Sent(r, "Register", 400)
    /\ req[r].msg = "DuplicateKey"
    /\ \E u \in DOMAIN users \ UserIds :
         /\ users[u].email = req[r].email
         /\ users[u].username # Trim(req[r].username)
    /\ \A u \in DOMAIN users : users[u].username # Trim(req[r].username)

\* ---------------------------------------------------------------- C21
\* The body of a Create Issue passes every check but the lookup of the
\* project: a title that is given and that the schema accepts, a project
\* id, and no assignee or one that resolves.
IssueBodyPasses(q) ==
  /\ Trim(q.name) # "" /\ IsValidIssueTitle(Trim(q.name))
  /\ q.pid # NoId
  /\ q.assignedTo \in {"", "null"}
       \/ (IsValidUserIdString(q.assignedTo) /\ UserFindById(q.assignedTo) # "none")
CommentBodyPasses(q) == IsValidCommentContent(Trim(q.name))
Answered(q, code) == q.pc = "sent" /\ q.status = code

\* The step of a create request r from its lookup: it goes on to save
\* exactly when the parent is stored, and a well-formed id of no stored
\* parent is answered 404 with nothing created; the save inserts the
\* document of the caller and answers 201.
CreatesIffParent(r, o, passes, id, parents, docs, docsNext, own) ==
  /\ (At(r, o, "handler") /\ passes /\ IsValidObjectId(id) /\ req'[r] # req[r]) =>
       /\ id \in parents => req'[r].pc = "save"
       /\ id \notin parents => Answered(req'[r], 404) /\ docsNext = docs
  /\ (At(r, o, "save") /\ passes /\ req'[r] # req[r]) =>
       /\ Answered(req'[r], 201)
       /\ \E d \in DOMAIN docsNext \ DOMAIN docs : docsNext[d] = own
       /\ \A d \in DOMAIN docs : d \in DOMAIN docsNext /\ docsNext[d] = docs[d]

\* C21, as amended: given a body that passes the schema's validators (and
\* an assignee, if any, that is a stored user), Create Issue and Create
\* Comment succeed for every authenticated identity, member of the project
\* or not, exactly when the parent is stored at lookup time; a well-formed
\* id of no stored parent is answered 404 and nothing is created.
C21_CreateIffParentExists ==
  [][\A r \in Slots :
       LET q == req[r] IN
       /\ CreatesIffParent(r, "CreateIssue", IssueBodyPasses(q), q.pid, DOMAIN projects,
                           issues, issues',
                           [project |-> q.pid, createdBy |-> q.user,
                            assignedTo |-> UserFindById(q.assignedTo)])
       /\ CreatesIffParent(r, "CreateComment", CommentBodyPasses(q), q.iid, DOMAIN issues,
                           comments, comments',
                           [issue |-> q.iid, author |-> q.user])]_vars

\* C21, as stated: a title (a content) that is given is enough.
C21_GivenTitleSuffices ==
  [][\A r \in Slots :
       LET q == req[r] IN
       /\ CreatesIffParent(r, "CreateIssue", q.name # "" /\ q.pid # NoId, q.pid,
                           DOMAIN projects, issues, issues',
                           [project |-> q.pid, createdBy |-> q.user,
                            assignedTo |-> UserFindById(q.assignedTo)])
       /\ CreatesIffParent(r, "CreateComment", q.name # "", q.iid, DOMAIN issues,
                           comments, comments',
                           [issue |-> q.iid, author |-> q.user])]_vars

\* A comment of a user on an issue that another user, who is neither the
\* creator nor a member of its project, has created.
C21_Witness ==
  \E r \in Slots :
    /\ Sent(r, "CreateComment", 201)
    /\ \E c \in DOMAIN comments :
         /\ comments[c].author = req[r].user
         /\ comments[c].issue \in DOMAIN issues
         /\ LET i == issues[comments[c].issue] IN
            /\ i.createdBy # req[r].user
            /\ i.project \in DOMAIN projects
            /\ ~CanViewProject(i.createdBy, projects[i.project])
            /\ ~CanViewProject(req[r].user, projects[i.project])

\* ---------------------------------------------------------------- C22
\* C22: no step changes the role of a stored user, and a user a step adds
\* has role user, whatever the body of the registration names; so the
\* users of role admin are the seeded ones.
C22_RolesFixed ==
  [][/\ \A u \in DOMAIN users \cap DOMAIN users' : users'[u].role = users[u].role
     /\ \A u \in DOMAIN users' \ DOMAIN users : users'[u].role = "user"
     /\ \A u \in DOMAIN users' : users'[u].role = "admin" => SeedUser(u).role = "admin" /\ u \in UserIds]_vars

\* A registration that named role admin was answered 201 and its user is
\* stored.
C22_Witness ==
  \E r \in Slots :
    /\ Sent(r, "Register", 201)
    /\ req[r].bodyRole = "admin"
    /\ \E u \in DOMAIN users \ UserIds : users[u].username = Trim(req[r].username)

\* ---------------------------------------------------------------- C23
\* The parent a delete request names, and whether it is stored.
ParentStored(q) ==
  IF q.op = "DeleteIssue" THEN q.iid \in DOMAIN issues ELSE q.pid \in DOMAIN projects
ChildrenOf(q) ==
  IF q.op = "DeleteIssue" THEN CommentsOf(q.iid) ELSE IssuesOf(q.pid)

\* C23: from the failure of the child-deletion step of a delete on, the
\* parent is stored and the request ends with an error answer; when the
\* removal of the parent fails, the request ends with an error answer and
\* the children it has removed are not back: no child of the parent is
\* stored.
C23_FailedCascade ==
  \A r \in {"r1"} :
    LET q == req[r] IN
    /\ q.failed = "children" =>
         ParentStored(q) /\ (q.pc # "idle" => Answered(q, 500))
    /\ q.failed = "parent" => ChildrenOf(q) = {} /\ Answered(q, 500)

\* The comments of an issue could not be deleted, one of them is gone and
\* another one still stored with the issue.
C23_Witness ==
  \E r \in {"r1"} :
    /\ Sent(r, "DeleteIssue", 500)
    /\ req[r].failed = "children"
    /\ req[r].removed # {}
    /\ CommentsOf(req[r].iid) # {}
    /\ req[r].iid \in DOMAIN issues

\* ---------------------------------------------------------------- C24
\* A delete request that has passed its checks and is under way or answered
\* 200.
Deleting(q) ==
  /\ q.op \in {"DeleteIssue", "DeleteProject"}
  /\ q.pc \in {"preDeleteOne", "deleteIssues", "deleteOne"} \/ (q.pc = "sent" /\ q.status = 200)

\* C24: with one request at a time, in every state of a delete either the
\* parent is stored or none of its direct children is, and the step that
\* removes the parent starts from a state with none of its children.
C24_ChildrenFirst ==
  /\ [](\A r \in {"r1"} : Deleting(req[r]) => ParentStored(req[r]) \/ ChildrenOf(req[r]) = {})
  /\ [][\A r \in {"r1"} :
          (Deleting(req[r]) /\ ParentStored(req[r]) /\ ~ParentStored(req[r])')
            => ChildrenOf(req[r]) = {}]_vars

\* A delete of an issue has removed its comments and the issue is still
\* stored.
C24_Witness ==
  \E r \in {"r1"} :
    /\ At(r, "DeleteIssue", "deleteOne")
    /\ req[r].removed # {}
    /\ req[r].iid \in DOMAIN issues

\* ---------------------------------------------------------------- C25
\* C25: no two stored projects have the same name and the same creator,
\* and a Create Project with the name of a project the caller has created
\* is answered 400 and creates nothing.
C25_UniqueProjectNames ==
  /\ [](\A p1, p2 \in DOMAIN projects :
          (projects[p1].name = projects[p2].name
             /\ projects[p1].createdBy = projects[p2].createdBy) => p1 = p2)
  /\ [][\A r \in Slots :
          (At(r, "CreateProject", "handler") /\ ProjectFindOne(req[r].name, req[r].user)
             /\ req'[r] # req[r])
            => Answered(req'[r], 400) /\ projects' = projects]_vars

\* ---------------------------------------------------------------- C26
\* C26: a stored project is in the list GET /api/projects answers to a
\* user exactly when GET /api/projects/:id for it is allowed for that user.
C26_ListIffView ==
  /\ \A u \in DOMAIN users, p \in DOMAIN projects :
       p \in ProjectFind(u) <=> ViewProjectStatus(u, p) = 200
  /\ \A r \in {"r1"} :
       Sent(r, "ListProjects", 200) =>
         \A p \in DOMAIN projects :
           p \in req[r].listed <=> ViewProjectStatus(req[r].user, p) = 200

\* The list answered to a user holds a project of which the user is a
\* member and not the creator.
C26_Witness ==
  \E r \in {"r1"} :
    /\ Sent(r, "ListProjects", 200)
    /\ \E p \in req[r].listed :
         /\ p \in DOMAIN projects
         /\ ~IsCreator(req[r].user, projects[p])
         /\ IsMember(req[r].user, projects[p])
====
